---- MODULE Spec2Model ----
(***************************************************************************)
(* A model of the Google Drive retrieval engine (src/lib, modular variant): *)
(* main, processUrl, processFile, downloadFile, processFolder, request,    *)
(* error, the CookieManager, fileExists and the pure helpers they use.     *)
(* JavaScript strings are TLA+ strings; null and the empty string are both *)
(* written "" where the code only tests truthiness.                        *)
(***************************************************************************)
EXTENDS Integers, Sequences, FiniteSets, TLC

VARIABLES
    env,        \* the name of the service this run talks to (see Service)
    opts,       \* parsed command line: urls, directory, outputDocument, flags
    gd,         \* GDriveDL fields fixed by the constructor: overwrite, continueOnErrors, mtimes
    pc,         \* position of the single thread of control
    ui,         \* index of the url main() is processing
    errors,     \* GDriveDL.errors
    processed,  \* GDriveDL.processed
    cookies,    \* CookieManager.cookies, a Map in insertion order
    stack,      \* active processFolder calls, innermost last
    pu,         \* arguments and locals of the active processUrl call
    pf,         \* arguments and locals of the active processFile call
    fo,         \* arguments of the processFolder call being entered
    inflight,   \* the fetch() that is outstanding
    response,   \* the response request() returned last
    files,      \* regular files on disk: path -> modification time
    dirs,       \* directories on disk
    exitCode,   \* process exit status, -1 while running
    obs,        \* observations of the run used by the properties
    probe       \* a direct call of one exported function: arguments and result

vars == <<env, opts, gd, pc, ui, errors, processed, cookies, stack, pu, pf, fo,
          inflight, response, files, dirs, exitCode, obs, probe>>

(***************************************************************************)
(* Bounds of the model.                                                    *)
(***************************************************************************)
MaxUrls == 2          \* urls on one command line
MaxEntries == 2       \* entries of all the folder listings served in one run
MaxFetches == 4       \* fetches the service answers in one run; later ones fail

(***************************************************************************)
(* JavaScript string primitives.                                           *)
(***************************************************************************)
Char(s, i) == SubSeq(s, i, i)

Min(S) == CHOOSE x \in S : \A y \in S : x <= y

\* String.prototype.indexOf: first position of sub in s, 0 when absent.
indexFrom(s, sub, i) ==
    LET hits == {j \in i..(Len(s) - Len(sub) + 1) : SubSeq(s, j, j + Len(sub) - 1) = sub}
    IN IF hits = {} THEN 0 ELSE Min(hits)

indexOf(s, sub) == indexFrom(s, sub, 1)

\* String.prototype.includes
includes(s, sub) == indexOf(s, sub) # 0

UpperLetters == "ABCDEFGHIJKLMNOPQRSTUVWXYZ"
LowerLetters == "abcdefghijklmnopqrstuvwxyz"

LowerOf == [c \in {Char(UpperLetters, i) : i \in 1..26} |->
               Char(LowerLetters, indexOf(UpperLetters, c))]
UpperOf == [c \in {Char(LowerLetters, i) : i \in 1..26} |->
               Char(UpperLetters, indexOf(LowerLetters, c))]

LowerChar(c) == IF c \in DOMAIN LowerOf THEN LowerOf[c] ELSE c
UpperChar(c) == IF c \in DOMAIN UpperOf THEN UpperOf[c] ELSE c

RECURSIVE toLowerCase(_)
toLowerCase(s) ==
    IF s = "" THEN "" ELSE LowerChar(Char(s, 1)) \o toLowerCase(SubSeq(s, 2, Len(s)))

\* (the string is converted half by half, which keeps the nesting of the
\* evaluation logarithmic in its length)
RECURSIVE toUpperCase(_)
toUpperCase(s) ==
    IF Len(s) <= 1 THEN UpperChar(s)
    ELSE toUpperCase(SubSeq(s, 1, Len(s) \div 2))
         \o toUpperCase(SubSeq(s, Len(s) \div 2 + 1, Len(s)))

\* String.prototype.trim for the ASCII space
RECURSIVE trimStart(_)
trimStart(s) == IF s # "" /\ Char(s, 1) = " " THEN trimStart(SubSeq(s, 2, Len(s))) ELSE s

RECURSIVE trimEnd(_)
trimEnd(s) ==
    IF s # "" /\ Char(s, Len(s)) = " " THEN trimEnd(SubSeq(s, 1, Len(s) - 1)) ELSE s

trim(s) == trimEnd(trimStart(s))

\* s.split(sep) as a sequence of pieces (sep is one character)
RECURSIVE split(_, _)
split(s, sep) ==
    LET i == indexOf(s, sep)
    IN IF i = 0 THEN <<s>>
       ELSE <<SubSeq(s, 1, i - 1)>> \o split(SubSeq(s, i + 1, Len(s)), sep)

\* Array.prototype.join
RECURSIVE joinWith(_, _)
joinWith(parts, sep) ==
    IF parts = <<>> THEN ""
    ELSE IF Len(parts) = 1 THEN parts[1]
    ELSE parts[1] \o sep \o joinWith(Tail(parts), sep)

(***************************************************************************)
(* constants.js                                                            *)
(***************************************************************************)
ITEM_URL(id) == "https://drive.google.com/open?id=" \o id
FILE_URL(id) ==
    "https://drive.usercontent.google.com/download?id=" \o id \o "&export=download&authuser=0"
FOLDER_URL(id) == "https://drive.google.com/embeddedfolderview?id=" \o id \o "#list"

IdAlphabet == "0123456789abcdefghijklmnopqrstuvwxyzABCDEFGHIJKLMNOPQRSTUVWXYZ_-"
IdChars == {Char(IdAlphabet, i) : i \in 1..Len(IdAlphabet)}
IsIdChar(c) == c \in IdChars
MinIdLen == 10

\* length of the maximal run of [0-9A-Za-z_-] that starts at position j
RECURSIVE RunLen(_, _)
RunLen(s, j) == IF j <= Len(s) /\ IsIdChar(Char(s, j)) THEN 1 + RunLen(s, j + 1) ELSE 0

\* /<prefix>([0-9A-Za-z_-]{min,})(?:<t>|$)/i : the capture of the leftmost
\* match, "" when the pattern does not match.  The greedy run can only be
\* followed by a non-token character, so a match takes the maximal run.
RECURSIVE MatchTokenFrom(_, _, _, _, _)
MatchTokenFrom(s, prefix, terminator, min, i) ==
    IF i + Len(prefix) - 1 > Len(s) THEN ""
    ELSE IF /\ LowerChar(Char(s, i)) = Char(prefix, 1)
            /\ toLowerCase(SubSeq(s, i, i + Len(prefix) - 1)) = prefix
            /\ RunLen(s, i + Len(prefix)) >= min
            /\ \/ i + Len(prefix) + RunLen(s, i + Len(prefix)) > Len(s)
               \/ Char(s, i + Len(prefix) + RunLen(s, i + Len(prefix))) = terminator
    THEN SubSeq(s, i + Len(prefix), i + Len(prefix) + RunLen(s, i + Len(prefix)) - 1)
    ELSE MatchTokenFrom(s, prefix, terminator, min, i + 1)

MatchToken(s, prefix, terminator, min) == MatchTokenFrom(s, prefix, terminator, min, 1)

\* /([0-9A-Za-z_-]{min,})/i : the leftmost run of at least min token characters
RECURSIVE MatchBareTokenFrom(_, _, _)
MatchBareTokenFrom(s, min, i) ==
    IF i > Len(s) THEN ""
    ELSE IF ~IsIdChar(Char(s, i)) THEN MatchBareTokenFrom(s, min, i + 1)
    ELSE IF RunLen(s, i) >= min THEN SubSeq(s, i, i + RunLen(s, i) - 1)
    ELSE MatchBareTokenFrom(s, min, i + RunLen(s, i))

MatchBareToken(s, min) == MatchBareTokenFrom(s, min, 1)

\* a faulty pattern list that tries the catch-all pattern first
ID_PATTERNS_catchAllFirst(k, url) ==
    CASE k = 1 -> MatchBareToken(url, MinIdLen)
      [] k = 2 -> MatchToken(url, "/file/d/", "/", MinIdLen)
      [] k = 3 -> MatchToken(url, "/folders/", "/", MinIdLen)
      [] k = 4 -> MatchToken(url, "id=", "&", MinIdLen)

\* ID_PATTERNS[k] applied to url: the capture, "" when the pattern fails
ID_PATTERNS(k, url) ==
    CASE k = 1 -> MatchToken(url, "/file/d/", "/", MinIdLen)
      [] k = 2 -> MatchToken(url, "/folders/", "/", MinIdLen)
      [] k = 3 -> MatchToken(url, "id=", "&", MinIdLen)
      [] k = 4 -> MatchBareToken(url, MinIdLen)

NumIdPatterns == 4

\* for (const pattern of ID_PATTERNS): the capture of the first pattern that
\* matches, from pattern k on; "" (null) when none does
RECURSIVE firstMatchFrom(_, _)
firstMatchFrom(k, url) ==
    IF k > NumIdPatterns THEN ""
    ELSE IF ID_PATTERNS(k, url) # "" THEN ID_PATTERNS(k, url)
    ELSE firstMatchFrom(k + 1, url)

urlToId(url) == firstMatchFrom(1, url)

(***************************************************************************)
(* Values that may be absent or not a number.                              *)
(***************************************************************************)
Null == [k |-> "null"]
NaN == [k |-> "nan"]
Num(n) == [k |-> "num", v |-> n]
\* JavaScript truthiness of a number-or-null value
Truthy(x) == x.k = "num" /\ x.v # 0

Digits == "0123456789"
IsDigit(c) == c \in {Char(Digits, i) : i \in 1..10}

RECURSIVE DigitsValue(_, _)
DigitsValue(s, acc) ==
    IF s # "" /\ IsDigit(Char(s, 1))
    THEN DigitsValue(SubSeq(s, 2, Len(s)), acc * 10 + (indexOf(Digits, Char(s, 1)) - 1))
    ELSE acc

\* parseInt(s): leading blanks, an optional sign, then the decimal digits;
\* NaN when no digit follows.  undefined is written "".
parseInt(str) ==
    LET s == trimStart(str)
        neg == s # "" /\ Char(s, 1) = "-"
        body == IF s # "" /\ Char(s, 1) \in {"-", "+"} THEN SubSeq(s, 2, Len(s)) ELSE s
    IN IF body = "" \/ ~IsDigit(Char(body, 1)) THEN NaN
       ELSE Num(IF neg THEN 0 - DigitsValue(body, 0) ELSE DigitsValue(body, 0))

(***************************************************************************)
(* utils.js: sanitize                                                      *)
(***************************************************************************)
\* printable ASCII: code points 32..95 and 97..126, in order (the character
\* with code point 96 cannot be written in a TLA+ string and is left out)
AsciiLow == " !\"#$%&'()*+,-./0123456789:;<=>?@ABCDEFGHIJKLMNOPQRSTUVWXYZ[\\]^_"
AsciiHigh == "abcdefghijklmnopqrstuvwxyz{|}~"
\* the control characters a TLA+ string can hold, with their code points
Controls == <<[c |-> "\t", code |-> 9], [c |-> "\n", code |-> 10],
              [c |-> "\f", code |-> 12], [c |-> "\r", code |-> 13]>>

\* c.charCodeAt(0); 128 stands for any character outside the tables
CodePoints ==
    {[c |-> Char(AsciiLow, i), code |-> i + 31] : i \in 1..Len(AsciiLow)}
    \cup {[c |-> Char(AsciiHigh, i), code |-> i + 96] : i \in 1..Len(AsciiHigh)}
    \cup {Controls[i] : i \in 1..Len(Controls)}
CodeOf == [c \in {r.c : r \in CodePoints} |-> (CHOOSE r \in CodePoints : r.c = c).code]

charCodeAt(c) == IF c \in DOMAIN CodeOf THEN CodeOf[c] ELSE 128

\* the character with code point n, "" when the tables do not hold it
fromCharCode(n) ==
    LET k == {j \in 1..Len(Controls) : Controls[j].code = n}
    IN IF n >= 32 /\ n <= 95 THEN Char(AsciiLow, n - 31)
       ELSE IF n >= 97 /\ n <= 126 THEN Char(AsciiHigh, n - 96)
       ELSE IF k # {} THEN Controls[Min(k)].c
       ELSE ""

HexDigits == "0123456789abcdef"
IsHex(c) == c # "" /\ includes(HexDigits, LowerChar(c))
HexValue(c) == indexOf(HexDigits, LowerChar(c)) - 1

\* decodeURIComponent: every %XX is replaced by the character it encodes; a
\* "%" not followed by two hex digits, or a byte that is not a complete
\* UTF-8 sequence (here: any byte above 127), raises URIError.
EscapeByte(s) == 16 * HexValue(Char(s, 2)) + HexValue(Char(s, 3))

\* whether decodeURIComponent(s) raises URIError.  The two characters of a
\* valid escape are hex digits, so the left-to-right scan meets every "%" of
\* the string as the start of an escape: it raises exactly when one of them
\* starts no valid escape.
decodeThrows(s) ==
    \E i \in 1..Len(s) :
        /\ Char(s, i) = "%"
        /\ \/ i + 2 > Len(s)
           \/ ~IsHex(Char(s, i + 1))
           \/ ~IsHex(Char(s, i + 2))
           \/ EscapeByte(SubSeq(s, i, i + 2)) > 127

\* what position i of s contributes to the decoded string: the decoded
\* character at a "%", nothing at the two hex digits after it, the character
\* itself elsewhere
decodePiece(s, i) ==
    IF Char(s, i) = "%" THEN fromCharCode(EscapeByte(SubSeq(s, i, i + 2)))
    ELSE IF (i > 1 /\ Char(s, i - 1) = "%") \/ (i > 2 /\ Char(s, i - 2) = "%") THEN ""
    ELSE Char(s, i)

RECURSIVE decodeRange(_, _, _)
decodeRange(s, lo, hi) ==
    IF lo > hi THEN ""
    ELSE IF lo = hi THEN decodePiece(s, lo)
    ELSE decodeRange(s, lo, (lo + hi) \div 2) \o decodeRange(s, (lo + hi) \div 2 + 1, hi)

\* the string decodeURIComponent(s) returns when it does not raise
decodeValue(s) == decodeRange(s, 1, Len(s))

decodeURIComponent(s) ==
    IF decodeThrows(s) THEN [throws |-> TRUE, value |-> ""]
    ELSE [throws |-> FALSE, value |-> decodeValue(s)]

\* the blacklist; its NUL entry has no TLA+ spelling, and a decoded %00 is
\* written "" by fromCharCode, which removes it just as the filter would
blacklist == {"\\", "/", ":", "*", "?", "\"", "<", ">", "|"}
reserved == {"CON", "PRN", "AUX", "NUL", "COM1"}
MaxNameLen == 255

\* a faulty filter that removes nothing
removeBlacklisted_nothing(s) == s

\* filename.split("").filter((c) => !blacklist.includes(c)).join("")
RECURSIVE removeBlacklisted(_)
removeBlacklisted(s) ==
    IF Len(s) <= 1 THEN (IF s \notin blacklist THEN s ELSE "")
    ELSE removeBlacklisted(SubSeq(s, 1, Len(s) \div 2))
         \o removeBlacklisted(SubSeq(s, Len(s) \div 2 + 1, Len(s)))

\* filename.split("").filter((c) => c.charCodeAt(0) > 31).join("")
RECURSIVE removeControls(_)
removeControls(s) ==
    IF Len(s) <= 1 THEN (IF s # "" /\ charCodeAt(s) > 31 THEN s ELSE "")
    ELSE removeControls(SubSeq(s, 1, Len(s) \div 2))
         \o removeControls(SubSeq(s, Len(s) \div 2 + 1, Len(s)))

\* s.replace(/[. ]+$/, "")
RECURSIVE stripTrailingDotsAndSpaces(_)
stripTrailingDotsAndSpaces(s) ==
    IF s # "" /\ Char(s, Len(s)) \in {".", " "}
    THEN stripTrailingDotsAndSpaces(SubSeq(s, 1, Len(s) - 1))
    ELSE s

\* s.slice(0, end)
slice0(s, end) ==
    LET e == IF end < 0 THEN (IF Len(s) + end < 0 THEN 0 ELSE Len(s) + end)
             ELSE (IF end > Len(s) THEN Len(s) ELSE end)
    IN SubSeq(s, 1, e)

everyIsDot(s) == \A i \in 1..Len(s) : Char(s, i) = "."

limitLength(filename) ==
    IF Len(filename) > MaxNameLen
    THEN LET parts == split(filename, ".")
             ext == IF Len(parts) > 1 THEN "." \o parts[Len(parts)] ELSE ""
             base == IF Len(parts) > 1 THEN slice0(filename, 0 - Len(ext)) ELSE filename
         IN slice0(base, MaxNameLen - Len(ext)) \o ext
    ELSE filename

\* sanitize(filename): [throws, value]; throws when decodeURIComponent does
guardDots(s) == IF everyIsDot(s) THEN "_" \o s ELSE s
guardReserved(s) == IF toUpperCase(s) \in reserved THEN "_" \o s ELSE s
guardEmpty(s) == IF s = "" THEN "_" ELSE s

sanitize(filename) ==
    IF decodeURIComponent(filename).throws THEN [throws |-> TRUE, value |-> ""]
    ELSE [throws |-> FALSE,
          value |-> limitLength(guardEmpty(guardReserved(guardDots(trim(
                        stripTrailingDotsAndSpaces(removeControls(
                            removeBlacklisted(decodeURIComponent(filename).value))))))))]

(***************************************************************************)
(* utils.js: parseModifiedTime.  Dates are whole seconds since the epoch   *)
(* (every Date built here has zero milliseconds).                          *)
(***************************************************************************)
\* the clock and the time zone of the host: new Date() at the time of the run
NowYear == 2026
NowMonth == 11
NowDay == 6
\* seconds to add to a local wall-clock time to get UTC
TZOffsetSeconds == 0

\* days from 1970-01-01 to the civil date y-m-d (m in 1..12)
daysFromCivil(y, m, d) ==
    LET yy == IF m <= 2 THEN y - 1 ELSE y
        era == yy \div 400
        yoe == yy - era * 400
        mp == IF m > 2 THEN m - 3 ELSE m + 9
        doy == (153 * mp + 2) \div 5 + d - 1
        doe == yoe * 365 + yoe \div 4 - yoe \div 100 + doy
    IN era * 146097 + doe - 719468

\* MakeDay of ECMAScript: month is 0-based and may lie outside 0..11
makeDay(year, month, date) ==
    daysFromCivil(year + month \div 12, (month % 12) + 1, 1) + date - 1

\* Date.UTC(year, month, date, hours, minutes) in seconds; NaN if an argument is
dateUTC(year, month, date, hours, minutes) ==
    IF hours.k # "num" \/ minutes.k # "num" THEN NaN
    ELSE Num(makeDay(year, month, date) * 86400 + hours.v * 3600 + minutes.v * 60)

\* new Date(year, month, date) in local time, in seconds; a year in 0..99 means 19xx
newDateLocal(year, month, date) ==
    IF year.k # "num" \/ month.k # "num" \/ date.k # "num" THEN NaN
    ELSE LET y == IF year.v >= 0 /\ year.v <= 99 THEN 1900 + year.v ELSE year.v
         IN Num(makeDay(y, month.v, date.v) * 86400 + TZOffsetSeconds)

MonthNames == <<"jan", "feb", "mar", "apr", "may", "jun",
                "jul", "aug", "sep", "oct", "nov", "dec">>

\* new Date(text) for text of the shape "Mon D YYYY" (local time); the
\* fallback date parser yields an invalid date (NaN) for other text
newDateParse(text) ==
    LET parts == split(trim(text), " ")
        mon == {m \in 1..12 : MonthNames[m] = toLowerCase(slice0(parts[1], 3))}
    IN IF Len(parts) # 3 \/ mon = {} THEN NaN
       ELSE IF parseInt(parts[2]).k # "num" \/ parseInt(parts[3]).k # "num" THEN NaN
       ELSE IF parseInt(parts[2]).v < 1 \/ parseInt(parts[2]).v > 31 THEN NaN
       ELSE newDateLocal(parseInt(parts[3]), Num(Min(mon) - 1), parseInt(parts[2]))

numAdd(x, n) == IF x.k = "num" THEN Num(x.v + n) ELSE x

\* the element i of an array, undefined (written "") past its end
at(arr, i) == IF i <= Len(arr) THEN arr[i] ELSE ""

\* String(n) for a natural number n
RECURSIVE NumToString(_)
NumToString(n) ==
    IF n < 10 THEN Char(Digits, n + 1)
    ELSE NumToString(n \div 10) \o Char(Digits, (n % 10) + 1)

parseModifiedTime(modified) ==
    IF modified = "" THEN Null
    ELSE IF includes(modified, ":")
    THEN LET p == split(toLowerCase(modified), ":")
             hour == p[1]
             minutePart == p[2]
             h0 == parseInt(hour)
             minutes == parseInt(minutePart)
             h1 == IF includes(minutePart, "pm") /\ h0 # Num(12) THEN numAdd(h0, 12) ELSE h0
             hours == IF includes(minutePart, "am") /\ h1 = Num(12) THEN Num(0) ELSE h1
         IN dateUTC(NowYear, NowMonth - 1, NowDay, numAdd(hours, 7), minutes)
    ELSE IF includes(modified, "/")
    THEN LET p == split(modified, "/")
         IN newDateLocal(numAdd(parseInt(at(p, 3)), 2000),
                         numAdd(parseInt(at(p, 1)), -1),
                         parseInt(at(p, 2)))
    ELSE newDateParse(modified \o " " \o NumToString(NowYear))

(***************************************************************************)
(* node:path (POSIX)                                                       *)
(***************************************************************************)
isAbsolute(p) == p # "" /\ Char(p, 1) = "/"

\* the segments of a path with "", "." dropped and ".." resolved
RECURSIVE normalizeSegments(_, _, _)
normalizeSegments(segs, acc, abs) ==
    IF segs = <<>> THEN acc
    ELSE LET h == Head(segs)
             t == Tail(segs)
         IN IF h = "" \/ h = "." THEN normalizeSegments(t, acc, abs)
            ELSE IF h = ".."
            THEN (IF acc # <<>> /\ acc[Len(acc)] # ".."
                  THEN normalizeSegments(t, SubSeq(acc, 1, Len(acc) - 1), abs)
                  ELSE IF abs THEN normalizeSegments(t, acc, abs)
                  ELSE normalizeSegments(t, Append(acc, ".."), abs))
            ELSE normalizeSegments(t, Append(acc, h), abs)

normalize(p) ==
    LET body == joinWith(normalizeSegments(split(p, "/"), <<>>, isAbsolute(p)), "/")
    IN IF isAbsolute(p) THEN "/" \o body
       ELSE IF body = "" THEN "." ELSE body

\* path.join(a, b); a zero-length argument is ignored
join(a, b) ==
    IF a = "" THEN normalize(b)
    ELSE IF b = "" THEN normalize(a)
    ELSE normalize(a \o "/" \o b)

\* path.dirname(p) for a normalized path
dirname(p) ==
    LET segs == split(p, "/")
        parent == joinWith(SubSeq(segs, 1, Len(segs) - 1), "/")
    IN IF Len(segs) = 1 THEN "."
       ELSE IF parent = "" THEN "/" ELSE parent

\* the directory p and every directory above it
RECURSIVE withParents(_)
withParents(p) ==
    IF p = "." \/ p = "/" THEN {p} ELSE {p} \cup withParents(dirname(p))

\* a faulty mkdir that creates nothing
mkdir_nothing(ds, dir) == ds

\* mkdir(dir, { recursive: true })
mkdir(ds, dir) == ds \cup withParents(normalize(dir))

(***************************************************************************)
(* cookie-manager.js.  The Map is a sequence of [name, value] in insertion *)
(* order.  A header argument is null, one string or an array of strings.   *)
(***************************************************************************)
HNull == [t |-> "null"]
HStr(s) == [t |-> "string", s |-> s]
HArr(a) == [t |-> "array", a |-> a]

\* Map.prototype.set
mapSet(m, name, value) ==
    IF \E i \in 1..Len(m) : m[i].name = name
    THEN [i \in 1..Len(m) |-> IF m[i].name = name THEN [name |-> name, value |-> value] ELSE m[i]]
    ELSE Append(m, [name |-> name, value |-> value])

\* one iteration of the forEach of parseCookies: [throws, map].  value is
\* undefined when the pair has no "=", and value.trim() then raises TypeError.
parseOneCookie(m, cookie) ==
    LET nameValue == split(cookie, ";")[1]
        nv == split(nameValue, "=")
    IN IF Len(nv) < 2 THEN [throws |-> TRUE, map |-> m]
       ELSE [throws |-> FALSE, map |-> mapSet(m, trim(nv[1]), trim(nv[2]))]

RECURSIVE parseEach(_, _)
parseEach(m, arr) ==
    IF arr = <<>> THEN [throws |-> FALSE, map |-> m]
    ELSE LET r == parseOneCookie(m, Head(arr))
         IN IF r.throws THEN r ELSE parseEach(r.map, Tail(arr))

\* CookieManager.parseCookies
parseCookies(m, setCookieHeaders) ==
    IF setCookieHeaders.t = "null" \/ (setCookieHeaders.t = "string" /\ setCookieHeaders.s = "")
    THEN [throws |-> FALSE, map |-> m]
    ELSE parseEach(m, IF setCookieHeaders.t = "array" THEN setCookieHeaders.a
                      ELSE <<setCookieHeaders.s>>)

\* CookieManager.getCookieString
getCookieString(m) ==
    joinWith([i \in 1..Len(m) |-> m[i].name \o "=" \o m[i].value], "; ")

\* response.headers.get("set-cookie") of fetch: null without such a header,
\* else the values of all Set-Cookie headers joined by ", " into one string
headersGetSetCookie(lines) ==
    IF lines = <<>> THEN HNull ELSE HStr(joinWith(lines, ", "))

(***************************************************************************)
(* file-utils.js.  A modification time is a Date: sec whole seconds plus   *)
(* ms in 0..999 milliseconds since the epoch.                              *)
(***************************************************************************)
\* Math.floor(date.getTime() / 1000)
floorSeconds(date) == date.sec + (date.ms \div 1000)

\* a faulty fileExists that rounds the modification time to the nearest
\* second instead of flooring it
fileExists_rounding(fs, filePath, modified, overwrite) ==
    IF overwrite THEN FALSE
    ELSE IF filePath \in DOMAIN fs
    THEN (IF Truthy(modified)
          THEN fs[filePath].sec + ((fs[filePath].ms + 500) \div 1000) = modified.v
          ELSE TRUE)
    ELSE FALSE

\* fileExists(filePath, modified, overwrite) against the files fs
fileExists(fs, filePath, modified, overwrite) ==
    IF overwrite THEN FALSE
    ELSE IF filePath \in DOMAIN fs
    THEN (IF Truthy(modified) THEN floorSeconds(fs[filePath]) = modified.v ELSE TRUE)
    ELSE FALSE

\* a faulty setModifiedTime that builds the Date from the seconds without
\* the factor of 1000
setModifiedTime_noFactor(fs, filePath, timestamp, utimesOk) ==
    IF ~Truthy(timestamp) THEN fs
    ELSE IF utimesOk /\ filePath \in DOMAIN fs
    THEN [fs EXCEPT ![filePath] = [sec |-> timestamp.v \div 1000, ms |-> timestamp.v % 1000]]
    ELSE fs

\* setModifiedTime(filePath, timestamp); utimesOk is whether utimes succeeds
setModifiedTime(fs, filePath, timestamp, utimesOk) ==
    IF ~Truthy(timestamp) THEN fs
    ELSE IF utimesOk /\ filePath \in DOMAIN fs
    THEN [fs EXCEPT ![filePath] = [sec |-> timestamp.v, ms |-> 0]]
    ELSE fs

(***************************************************************************)
(* constants.js: the page patterns                                         *)
(***************************************************************************)
\* /<prefix>([0-9A-Za-z_-]+)/i : capture of the leftmost match, "" if none
MatchAfter(html, prefix) ==
    LET hits == {i \in 1..(Len(html) - Len(prefix) + 1) :
                    /\ LowerChar(Char(html, i)) = Char(prefix, 1)
                    /\ toLowerCase(SubSeq(html, i, i + Len(prefix) - 1)) = prefix
                    /\ RunLen(html, i + Len(prefix)) >= 1}
    IN IF hits = {} THEN ""
       ELSE LET j == Min(hits) + Len(prefix) IN SubSeq(html, j, j + RunLen(html, j) - 1)

RECURSIVE SpaceRun(_, _)
SpaceRun(s, j) == IF j <= Len(s) /\ Char(s, j) \in {" ", "\t", "\n", "\r", "\f"}
                  THEN 1 + SpaceRun(s, j + 1) ELSE 0

\* /name="<field>"\s+value="([0-9A-Za-z_-]+)"/i : capture of the leftmost match
MatchInput(html, field) ==
    LET head == "name=\"" \o field \o "\""
        val == "value=\""
        cap(i) == LET j == i + Len(head)
                      w == SpaceRun(html, j)
                      v == j + w
                      t == v + Len(val)
                      n == RunLen(html, t)
                  IN IF /\ LowerChar(Char(html, i)) = "n"
                        /\ i + Len(head) - 1 <= Len(html)
                        /\ toLowerCase(SubSeq(html, i, i + Len(head) - 1)) = head
                        /\ w >= 1
                        /\ v + Len(val) - 1 <= Len(html)
                        /\ toLowerCase(SubSeq(html, v, v + Len(val) - 1)) = val
                        /\ n >= 1
                        /\ t + n <= Len(html)
                        /\ Char(html, t + n) = "\""
                     THEN SubSeq(html, t, t + n - 1) ELSE ""
        hits == {i \in 1..Len(html) : cap(i) # ""}
    IN IF hits = {} THEN "" ELSE cap(Min(hits))

\* the loop over CONFIRM_PATTERNS: capture of the first pattern that matches
confirmMatch(html) ==
    IF MatchAfter(html, "confirm=") # "" THEN MatchAfter(html, "confirm=")
    ELSE MatchInput(html, "confirm")

\* html.match(UUID_PATTERN)
uuidMatch(html) == MatchInput(html, "uuid")

\* contentDisposition.match(FILENAME_PATTERN), /filename="(.*?)"/i :
\* [matched, name]; the lazy capture ends at the next double quote
filenameMatch(cd) ==
    LET head == "filename=\""
        hits == {i \in 1..(Len(cd) - Len(head) + 1) :
                    /\ LowerChar(Char(cd, i)) = "f"
                    /\ toLowerCase(SubSeq(cd, i, i + Len(head) - 1)) = head
                    /\ indexOf(SubSeq(cd, i + Len(head), Len(cd)), "\"") # 0}
    IN IF hits = {} THEN [matched |-> FALSE, name |-> ""]
       ELSE LET j == Min(hits) + Len(head)
                rest == SubSeq(cd, j, Len(cd))
            IN [matched |-> TRUE, name |-> SubSeq(rest, 1, indexOf(rest, "\"") - 1)]

(***************************************************************************)
(* The inputs of a run: the command line, the disk and what the service    *)
(* may answer.                                                             *)
(***************************************************************************)
FileId == "FILEID0001"
FolderA == "FOLDERID0A"
FolderB == "FOLDERID0B"

FileViewUrl == "https://drive.google.com/file/d/" \o FileId \o "/view"
FileEditUrl == "https://drive.google.com/file/d/" \o FileId \o "/edit"
FolderUrl(id) == "https://drive.google.com/folders/" \o id
OpenUrl == "https://drive.google.com/open?id=" \o FileId
UcUrl == "https://drive.google.com/uc?id=" \o FileId
LoginUrl == "https://accounts.google.com/ServiceLogin?continue=drive"
ShortUrl == "https://drive.google.com/file/d/short/view"

\* the accepted inbound forms that carry a scheme (README, URL Formats Supported)
SchemeForms == {FileViewUrl, FileEditUrl, FolderUrl(FolderA), OpenUrl, UcUrl}
\* the urls a command line is drawn from: no identifier, a bare identifier,
\* the same folder by its url, a file, the open?id= form
UrlPool == <<"short", FolderA, FolderUrl(FolderA), FileViewUrl, OpenUrl>>

\* the runs of 1..n consecutive elements of pool (taken cyclically)
Windows(pool, n) ==
    { [i \in 1..k |-> pool[((s + i - 2) % Len(pool)) + 1]] : s \in 1..Len(pool), k \in 1..n }

CommandLines == Windows(UrlPool, MaxUrls)

\* a match of FOLDER_PATTERN: [url, itemName, modified]
Entry(u, n, m) == [url |-> u, itemName |-> n, modified |-> m]
\* the entries a listing is drawn from: one without identifier, a file
\* (listed twice), a subfolder, a link back to the top folder, a file with a
\* percent sign in its display name
EntryPool == << Entry(ShortUrl, "bad.txt", "3:45 PM"),
                Entry(FileViewUrl, "a.txt", "Dec 25"),
                Entry(FileViewUrl, "a.txt", "Dec 25"),
                Entry(FolderUrl(FolderB), "sub", ""),
                Entry(FolderUrl(FolderA), "up", ""),
                Entry(FileViewUrl, "100%.txt", "") >>

\* the listing pages: html.matchAll(FOLDER_PATTERN) in document order, and
\* the rest of the page text
Listings == {<<>>} \cup Windows(EntryPool, MaxEntries)
FolderPages == {[html |-> "", matches |-> l] : l \in Listings}
                  \cup {[html |-> "<a href=\"ServiceLogin\">", matches |-> <<>>]}

QuotaPage == "<title>Google Drive - Quota exceeded</title>"
ConfirmLinkPage == "<a href=\"/uc?export=download&confirm=AbC1&id=x\">"
ConfirmFormPage == "<input name=\"confirm\" value=\"t0k\"><input name=\"uuid\"  value=\"u-1\">"
PlainPage == "<html>virus scan warning</html>"

\* what a download request may be answered with: [contentDisposition, html]
FileAnswers == { [cd |-> "attachment; filename=\"a.txt\"", html |-> ""],
                 [cd |-> "attachment", html |-> ""],
                 [cd |-> "", html |-> QuotaPage],
                 [cd |-> "", html |-> ConfirmFormPage],
                 [cd |-> "", html |-> ConfirmLinkPage],
                 [cd |-> "", html |-> PlainPage] }

\* Location targets of a 3xx answer, by the kind of request
Callers == {"lookup", "file", "folder"}
Locations == [c \in Callers |->
                 CASE c = "lookup" -> {FileViewUrl, FolderUrl(FolderA), LoginUrl}
                   [] c = "file" -> {LoginUrl}
                   [] OTHER -> {}]

\* the Set-Cookie header lines of one answer
SetCookieChoices == { <<>>, <<"a=1; Path=/">>, <<"NID=5=x; Path=/">>,
                      <<"a=2; Path=/", "b=2">> }

\* the time a written file gets, and the times of a file found on disk
WriteTime == [sec |-> makeDay(NowYear, NowMonth - 1, NowDay) * 86400 + 3600, ms |-> 250]
ListedTime == parseModifiedTime("Dec 25").v
NoFiles == [x \in {} |-> WriteTime]
InitialFiles == { NoFiles, [x \in {"a.txt"} |-> [sec |-> ListedTime, ms |-> 999]] }

(***************************************************************************)
(* index.js: main, up to the construction of the downloader                *)
(***************************************************************************)
OdUndefined == [t |-> "undefined"]
OdNull == [t |-> "null"]
OdStr(str) == [t |-> "string", s |-> str]

\* values["output-document"] after the multiple-url warning
outputDocumentOf(od, urls) ==
    IF od.t = "string" /\ od.s # "" /\ Len(urls) > 1 THEN OdNull ELSE od

\* new GDriveDL({...}) as main() builds it
newGDriveDL(values, urls) ==
    [ overwrite |-> outputDocumentOf(values.outputDocument, urls) # OdUndefined,
      mtimes |-> values.mtimes,
      continueOnErrors |-> values.continueOnErrors ]

\* the filename main() passes to processUrl ("" for null and undefined)
filenameArg(values, urls) ==
    LET od == outputDocumentOf(values.outputDocument, urls)
    IN IF od.t = "string" THEN od.s ELSE ""

NoCall == [id |-> ""]
NoRequest == [url |-> "", cookie |-> "", caller |-> ""]
NoResponse == [url |-> "", setCookie |-> <<>>, cd |-> "", html |-> "", matches |-> <<>>]
\* answers, entries: counters for the bounds; hop: the Set-Cookie lines of
\* the 3xx answer that led to the outstanding fetch; hops: the redirects
\* followed so far by the request() call under way; listed: the identifiers
\* whose listing was requested, in order; opened: the folders whose listing
\* was read without a sharing error, with their directories; fatal: an
\* exception left main(); outcome, unlink: how the last processFile step ended
Obs0 == [answers |-> 0, entries |-> 0, hop |-> <<>>, hops |-> 0, listed |-> <<>>,
         opened |-> <<>>, fatal |-> FALSE, outcome |-> "", unlink |-> ""]

NoProbe == [fn |-> "none"]

\* display names and header filenames that try to leave the destination
\* directory: parent segments, plain and percent-encoded, an absolute path,
\* a backslash
HostilePool == << Entry(FileViewUrl, "../evil.txt", ""),
                  Entry(FolderUrl(FolderB), "..", ""),
                  Entry(FileViewUrl, "%2e%2e%2fx.txt", "Dec 25"),
                  Entry(FolderUrl(FolderB), "../../up", ""),
                  Entry(FileViewUrl, "/abs.txt", ""),
                  Entry(FileViewUrl, "..\\w.txt", "") >>
HostilePages == {[html |-> "", matches |-> l] :
                    l \in {<<>>} \cup Windows(HostilePool, MaxEntries)}
HostileFileAnswers ==
    FileAnswers \cup { [cd |-> "attachment; filename=\"../../h.txt\"", html |-> ""],
                       [cd |-> "attachment; filename=\"/tmp/h.txt\"", html |-> ""] }

\* what a service may answer.  "plain": the service of a general run, which
\* sets no cookies; "cookies": the same service setting cookies; "hostile":
\* a service whose names try to leave the destination directory.
PlainService == [pages |-> FolderPages, fileAnswers |-> FileAnswers,
                 locations |-> Locations, cookieLines |-> {<<>>}]
CookieService == [PlainService EXCEPT !.cookieLines = SetCookieChoices]
HostileService == [PlainService EXCEPT !.pages = HostilePages,
                                       !.fileAnswers = HostileFileAnswers]

Service == IF env = "cookies" THEN CookieService
           ELSE IF env = "hostile" THEN HostileService
           ELSE PlainService

InitWith(service, urlSeqs) ==
    /\ env = service
    /\ opts \in [ urls : urlSeqs,
                  directory : {"."},
                  outputDocument : {OdUndefined, OdStr("out.bin")},
                  mtimes : {FALSE},
                  continueOnErrors : BOOLEAN ]
    /\ gd = newGDriveDL(opts, opts.urls)
    /\ pc = "main"
    /\ ui = 1
    /\ errors = <<>>
    /\ processed = <<>>
    /\ cookies = <<>>
    /\ stack = <<>>
    /\ pu = NoCall
    /\ pf = NoCall
    /\ fo = NoCall
    /\ inflight = NoRequest
    /\ response = NoResponse
    /\ files \in IF opts.outputDocument = OdUndefined THEN InitialFiles ELSE {NoFiles}
    /\ dirs = {"."}
    /\ exitCode = -1
    /\ obs = Obs0
    /\ probe = NoProbe

Init == InitWith("plain", CommandLines)

(***************************************************************************)
(* Building blocks of the actions.                                         *)
(***************************************************************************)
\* control returns from processFile / processFolder to the caller: the loop
\* of the enclosing processFolder, or the loop of main() through processUrl
ReturnTo(stk) ==
    IF stk = <<>>
    THEN /\ pc' = "main"
         /\ ui' = ui + 1
         /\ stack' = stk
    ELSE /\ pc' = "fo_loop"
         /\ ui' = ui
         /\ stack' = [stk EXCEPT ![Len(stk)].idx = @ + 1]

\* a faulty error() that ends the process whatever the policy is
error_alwaysExits(message, cont) ==
    /\ errors' = Append(errors, message)
    /\ pc' = "done"
    /\ exitCode' = 1
    /\ UNCHANGED <<ui, stack>>

\* a faulty error() that never ends the process
error_neverExits(message, cont) ==
    /\ errors' = Append(errors, message)
    /\ exitCode' = exitCode
    /\ cont

\* GDriveDL.error(message); cont is what the caller does when error returns
error(message, cont) ==
    /\ errors' = Append(errors, message)
    /\ IF ~gd.continueOnErrors
       THEN /\ pc' = "done"
            /\ exitCode' = 1
            /\ UNCHANGED <<ui, stack>>
       ELSE /\ exitCode' = exitCode
            /\ cont

\* an exception leaves main(): main().catch prints it and exits with 1
Fatal ==
    /\ pc' = "done"
    /\ exitCode' = 1
    /\ obs' = [obs EXCEPT !.fatal = TRUE]

\* a faulty request that hands control back while the fetch is still pending
awaitFetch_notAwaited(req) == req

\* await fetch(...): request() resumes when the fetch has settled, so the
\* request is no longer outstanding
awaitFetch(req) == NoRequest

\* the fetch() of request(url) is sent with the cookies stored so far
Fetch(url, caller, store) ==
    /\ pc' = "fetch"
    /\ inflight' = [url |-> url, cookie |-> getCookieString(store), caller |-> caller]

(***************************************************************************)
(* main and processUrl                                                     *)
(***************************************************************************)
\* main(): the next iteration of the url loop calls processUrl (lines 258-269)
Main_ProcessUrl ==
    /\ pc = "main"
    /\ ui <= Len(opts.urls)
    /\ LET url == opts.urls[ui]
           id == urlToId(url)
       IN /\ pu' = [id |-> id, url |-> url, filename |-> filenameArg(opts, opts.urls)]
          /\ IF id = ""
             THEN /\ error(url \o ": Unable to find ID from url", ReturnTo(stack))
                  /\ UNCHANGED <<inflight, obs>>
             ELSE IF ~includes(toLowerCase(url), "://")
             THEN /\ Fetch(ITEM_URL(id), "lookup", cookies)
                  /\ obs' = [obs EXCEPT !.hop = <<>>, !.hops = 0]
                  /\ UNCHANGED <<errors, exitCode, ui, stack>>
             ELSE /\ pc' = "pu_dispatch"
                  /\ UNCHANGED <<errors, exitCode, ui, stack, inflight, obs>>
    /\ UNCHANGED <<probe, env, opts, gd, processed, cookies, pf, fo, response, files, dirs>>

\* processUrl after the lookup request: url = response.url
ProcessUrl_Lookup ==
    /\ pc = "pu_lookup"
    /\ pu' = [pu EXCEPT !.url = response.url]
    /\ pc' = "pu_dispatch"
    /\ response' = NoResponse
    /\ UNCHANGED <<probe, env, opts, gd, ui, errors, processed, cookies, stack, pf, fo, inflight,
                   files, dirs, exitCode, obs>>

\* processUrl, lines 271-282: the file path, the folder path or an error
ProcessUrl_Dispatch ==
    /\ pc = "pu_dispatch"
    /\ IF includes(pu.url, "/file/") \/ includes(pu.url, "/uc?")
       THEN /\ pf' = [id |-> pu.id, directory |-> opts.directory, filename |-> pu.filename,
                      modified |-> "", confirm |-> "", uuid |-> "", attempt |-> 0,
                      filePath |-> "", modifiedTs |-> Null]
            /\ pc' = "pf_start"
            /\ UNCHANGED <<fo, errors, exitCode, ui, stack>>
       ELSE IF includes(pu.url, "/folders/")
       THEN /\ fo' = [id |-> pu.id, directory |-> opts.directory]
            /\ pc' = "fo_start"
            /\ UNCHANGED <<pf, errors, exitCode, ui, stack>>
       ELSE /\ error(pu.id \o ": returned an unknown url " \o pu.url, ReturnTo(stack))
            /\ UNCHANGED <<pf, fo>>
    /\ pu' = NoCall
    /\ UNCHANGED <<probe, env, opts, gd, processed, cookies, inflight, response, files, dirs, obs>>

\* a faulty end of main() that reports success whatever was recorded
Main_Finish_exitsZero ==
    /\ pc = "main"
    /\ ui > Len(opts.urls)
    /\ pc' = "done"
    /\ exitCode' = 0
    /\ UNCHANGED <<probe, env, opts, gd, ui, errors, processed, cookies, stack, pu, pf, fo,
                   inflight, response, files, dirs, obs>>

\* main(): after the loop, exit with 1 if any error was recorded
Main_Finish ==
    /\ pc = "main"
    /\ ui > Len(opts.urls)
    /\ pc' = "done"
    /\ exitCode' = IF Len(errors) > 0 THEN 1 ELSE 0
    /\ UNCHANGED <<probe, env, opts, gd, ui, errors, processed, cookies, stack, pu, pf, fo, inflight,
                   response, files, dirs, obs>>

(***************************************************************************)
(* request                                                                 *)
(***************************************************************************)
\* what the service may answer to the outstanding request
AnswersNow ==
    IF inflight.caller = "file"
    THEN {[cd |-> a.cd, html |-> a.html, matches |-> <<>>] : a \in Service.fileAnswers}
    ELSE IF inflight.caller = "folder"
    THEN {[cd |-> "", html |-> g.html, matches |-> g.matches] :
              g \in {x \in Service.pages : obs.entries + Len(x.matches) <= MaxEntries}}
    ELSE {[cd |-> "", html |-> "", matches |-> <<>>]}

\* request(), lines 47-52: a 3xx answer with a Location; the cookies of the
\* hop are stored and the Location target is requested
Request_Redirect ==
    /\ pc = "fetch"
    /\ obs.answers < MaxFetches
    /\ \E location \in Service.locations[inflight.caller], sc \in Service.cookieLines :
          LET r == parseCookies(cookies, headersGetSetCookie(sc))
          IN IF r.throws
             THEN /\ Fatal
                  /\ UNCHANGED <<cookies, inflight>>
             ELSE /\ cookies' = r.map
                  /\ Fetch(location, inflight.caller, r.map)
                  /\ exitCode' = exitCode
                  /\ obs' = [obs EXCEPT !.answers = @ + 1, !.hop = sc, !.hops = @ + 1]
    /\ UNCHANGED <<probe, env, opts, gd, ui, errors, processed, stack, pu, pf, fo, response, files, dirs>>

\* request(), lines 47-56: an answer that is returned to the caller (not a
\* 3xx, or a 3xx without Location, whose cookies are parsed twice)
Request_Return ==
    /\ pc = "fetch"
    /\ obs.answers < MaxFetches
    /\ \E status \in {200, 302}, sc \in Service.cookieLines, a \in AnswersNow :
          LET r1 == IF status >= 300 /\ status < 400
                    THEN parseCookies(cookies, headersGetSetCookie(sc))
                    ELSE [throws |-> FALSE, map |-> cookies]
              r2 == parseCookies(r1.map, headersGetSetCookie(sc))
          IN IF r1.throws \/ r2.throws
             THEN /\ Fatal
                  /\ UNCHANGED <<cookies, response>>
             ELSE /\ cookies' = r2.map
                  /\ response' = [url |-> inflight.url, setCookie |-> sc, cd |-> a.cd,
                                  html |-> a.html, matches |-> a.matches]
                  /\ pc' = CASE inflight.caller = "lookup" -> "pu_lookup"
                             [] inflight.caller = "file" -> "pf_resp"
                             [] OTHER -> "fo_resp"
                  /\ exitCode' = exitCode
                  /\ obs' = [obs EXCEPT !.answers = @ + 1, !.hop = <<>>, !.hops = 0,
                                        !.entries = @ + Len(a.matches)]
    /\ inflight' = awaitFetch(inflight)
    /\ UNCHANGED <<probe, env, opts, gd, ui, errors, processed, stack, pu, pf, fo, files, dirs>>

\* fetch() rejects (network failure): the exception leaves main()
Request_Fails ==
    /\ pc = "fetch"
    /\ Fatal
    /\ UNCHANGED <<probe, env, opts, gd, ui, errors, processed, cookies, stack, pu, pf, fo, inflight,
                   response, files, dirs>>

(***************************************************************************)
(* processFile and downloadFile                                            *)
(***************************************************************************)
\* the download url of processFile, lines 87-89
downloadUrl(id, confirm, uuid) ==
    FILE_URL(id) \o (IF confirm # "" THEN "&confirm=" \o confirm ELSE "")
                 \o (IF uuid # "" THEN "&uuid=" \o uuid ELSE "")

\* processFile, lines 76-91: the freshness check of a named file, then the request
ProcessFile_Start ==
    /\ pc = "pf_start"
    /\ LET modifiedTs == parseModifiedTime(pf.modified)
           filePath == IF pf.filename = "" THEN ""
                       ELSE IF isAbsolute(pf.filename) THEN pf.filename
                       ELSE join(pf.directory, pf.filename)
       IN IF pf.filename # "" /\ fileExists(files, filePath, modifiedTs, gd.overwrite)
          THEN /\ ReturnTo(stack)
               /\ pf' = NoCall
               /\ obs' = [obs EXCEPT !.outcome = "exists", !.unlink = ""]
               /\ UNCHANGED inflight
          ELSE /\ Fetch(downloadUrl(pf.id, pf.confirm, pf.uuid), "file", cookies)
               /\ pf' = [pf EXCEPT !.filePath = filePath, !.modifiedTs = modifiedTs]
               /\ obs' = [obs EXCEPT !.outcome = "", !.unlink = "", !.hop = <<>>, !.hops = 0]
               /\ UNCHANGED <<ui, stack>>
    /\ UNCHANGED <<probe, env, opts, gd, errors, processed, cookies, pu, fo, response, files, dirs,
                   exitCode>>

\* a faulty login test that never recognises the login redirect
isLoginRedirect_never(url) == FALSE

\* response.url.includes("ServiceLogin")
isLoginRedirect(url) == includes(url, "ServiceLogin")

\* processFile, lines 93-159: what the returned response leads to
ProcessFile_Response ==
    /\ pc = "pf_resp"
    /\ IF isLoginRedirect(response.url)
       THEN /\ error(pf.id \o ": does not have link sharing enabled", ReturnTo(stack))
            /\ obs' = [obs EXCEPT !.outcome = IF response.cd # "" THEN "sharing_with_cd"
                                              ELSE "sharing"]
            /\ pf' = NoCall
            /\ UNCHANGED dirs
       ELSE IF response.cd = ""
       THEN IF includes(response.html, "Google Drive - Quota exceeded")
            THEN /\ error(pf.id \o ": Quota exceeded for this file", ReturnTo(stack))
                 /\ obs' = [obs EXCEPT !.outcome = "quota"]
                 /\ pf' = NoCall
                 /\ UNCHANGED dirs
            ELSE /\ pf' = [pf EXCEPT !.confirm = IF confirmMatch(response.html) # ""
                                                 THEN confirmMatch(response.html) ELSE "t",
                                     !.uuid = uuidMatch(response.html),
                                     !.attempt = @ + 1]
                 /\ pc' = "pf_start"
                 /\ obs' = [obs EXCEPT !.outcome = "retry"]
                 /\ UNCHANGED <<errors, exitCode, ui, stack, dirs>>
       ELSE LET m == filenameMatch(response.cd)
                named == pf.filePath = "" /\ m.matched
                clean == sanitize(m.name)
                filePath == IF named THEN join(pf.directory, clean.value) ELSE pf.filePath
            IN IF named /\ clean.throws
               THEN /\ Fatal
                    /\ UNCHANGED <<errors, ui, stack, pf, dirs>>
               ELSE IF named /\ fileExists(files, filePath, pf.modifiedTs, gd.overwrite)
               THEN /\ ReturnTo(stack)
                    /\ pf' = NoCall
                    /\ obs' = [obs EXCEPT !.outcome = "exists_named"]
                    /\ UNCHANGED <<errors, exitCode, dirs>>
               ELSE IF filePath = ""
               THEN \* dirname(null) raises TypeError
                    /\ Fatal
                    /\ UNCHANGED <<errors, ui, stack, pf, dirs>>
               ELSE /\ dirs' = mkdir(dirs, dirname(filePath))
                    /\ pf' = [pf EXCEPT !.filePath = filePath]
                    /\ pc' = "pf_download"
                    /\ obs' = [obs EXCEPT !.outcome = "streaming"]
                    /\ UNCHANGED <<errors, exitCode, ui, stack>>
    /\ response' = NoResponse
    /\ UNCHANGED <<probe, env, opts, gd, processed, cookies, pu, fo, inflight, files>>

\* the file at path p written with time t / removed
writeFile(fs, p, t) == [x \in DOMAIN fs \cup {p} |-> IF x = p THEN t ELSE fs[x]]
removeFile(fs, p) == [x \in DOMAIN fs \ {p} |-> fs[x]]

\* a faulty downloadFile whose catch block does not unlink
downloadFile_keepsPartial(fs, filePath, copyOk, opened, unlinkOk) ==
    IF copyOk THEN [throws |-> FALSE, fs |-> writeFile(fs, filePath, WriteTime)]
    ELSE [throws |-> TRUE, fs |-> IF opened THEN writeFile(fs, filePath, WriteTime) ELSE fs]

\* downloadFile(response, filePath): [throws, fs].  copyOk: the pipeline
\* completes; opened: the write stream had created the file when the
\* pipeline failed; unlinkOk: unlink succeeds.
downloadFile(fs, filePath, copyOk, opened, unlinkOk) ==
    IF copyOk THEN [throws |-> FALSE, fs |-> writeFile(fs, filePath, WriteTime)]
    ELSE LET partial == IF opened THEN writeFile(fs, filePath, WriteTime) ELSE fs
         IN [throws |-> TRUE,
             fs |-> IF unlinkOk THEN removeFile(partial, filePath) ELSE partial]

\* processFile, lines 162-167: downloadFile, then setModifiedTime
ProcessFile_Download ==
    /\ pc = "pf_download"
    /\ \E copyOk \in BOOLEAN, opened \in BOOLEAN, unlinkOk \in BOOLEAN, utimesOk \in BOOLEAN :
          LET d == downloadFile(files, pf.filePath, copyOk, opened, unlinkOk)
          IN IF d.throws
             THEN /\ files' = d.fs
                  /\ pc' = "done"
                  /\ exitCode' = 1
                  /\ obs' = [obs EXCEPT !.fatal = TRUE, !.outcome = "copy_failed",
                                        !.unlink = IF unlinkOk THEN "ok" ELSE "failed"]
                  /\ UNCHANGED <<ui, stack, pf>>
             ELSE /\ files' = setModifiedTime(d.fs, pf.filePath, pf.modifiedTs, utimesOk)
                  /\ ReturnTo(stack)
                  /\ exitCode' = exitCode
                  /\ obs' = [obs EXCEPT !.outcome = "downloaded"]
                  /\ pf' = NoCall
    /\ UNCHANGED <<probe, env, opts, gd, errors, processed, cookies, pu, fo, inflight, response, dirs>>

(***************************************************************************)
(* processFolder                                                           *)
(***************************************************************************)
\* a faulty visited check that never finds the identifier
alreadyProcessed_never(done, id) == FALSE

\* this.processed.includes(id)
alreadyProcessed(done, id) == \E i \in 1..Len(done) : done[i] = id

\* processFolder, lines 204-210: the visited check, then the listing request
ProcessFolder_Start ==
    /\ pc = "fo_start"
    /\ IF alreadyProcessed(processed, fo.id)
       THEN /\ ReturnTo(stack)
            /\ fo' = NoCall
            /\ obs' = [obs EXCEPT !.outcome = "visited"]
            /\ UNCHANGED <<processed, inflight>>
       ELSE /\ processed' = Append(processed, fo.id)
            /\ Fetch(FOLDER_URL(fo.id), "folder", cookies)
            /\ obs' = [obs EXCEPT !.listed = Append(@, fo.id), !.hop = <<>>, !.hops = 0]
            /\ UNCHANGED <<ui, stack, fo>>
    /\ UNCHANGED <<probe, env, opts, gd, errors, cookies, pu, pf, response, files, dirs, exitCode>>

\* processFolder, lines 211-222: the page is read and its entries matched
ProcessFolder_Response ==
    /\ pc = "fo_resp"
    /\ IF Len(response.matches) = 0 /\ includes(response.html, "ServiceLogin")
       THEN /\ error(fo.id \o ": does not have link sharing enabled", ReturnTo(stack))
            /\ obs' = obs
       ELSE /\ stack' = Append(stack, [id |-> fo.id, directory |-> fo.directory,
                                       matches |-> response.matches, idx |-> 1])
            /\ pc' = "fo_loop"
            /\ obs' = [obs EXCEPT !.opened = Append(@, [id |-> fo.id,
                                                        directory |-> fo.directory])]
            /\ UNCHANGED <<errors, exitCode, ui>>
    /\ fo' = NoCall
    /\ response' = NoResponse
    /\ UNCHANGED <<probe, env, opts, gd, processed, cookies, pu, pf, inflight, files, dirs>>

\* processFolder, lines 224-248: one iteration of the loop over the matches
ProcessFolder_Entry ==
    /\ pc = "fo_loop"
    /\ LET top == stack[Len(stack)]
       IN /\ top.idx <= Len(top.matches)
          /\ LET match == top.matches[top.idx]
                 itemId == urlToId(match.url)
                 name == sanitize(match.itemName)
                 next == /\ pc' = "fo_loop"
                         /\ ui' = ui
                         /\ stack' = [stack EXCEPT ![Len(stack)].idx = @ + 1]
             IN IF itemId = ""
                THEN /\ error(match.url \o ": Unable to find ID from url", next)
                     /\ UNCHANGED <<pf, fo, obs>>
                ELSE IF includes(toLowerCase(match.url), "/file/")
                THEN IF name.throws
                     THEN /\ Fatal
                          /\ UNCHANGED <<errors, ui, stack, pf, fo>>
                     ELSE /\ pf' = [id |-> itemId, directory |-> top.directory,
                                    filename |-> name.value, modified |-> match.modified,
                                    confirm |-> "", uuid |-> "", attempt |-> 0,
                                    filePath |-> "", modifiedTs |-> Null]
                          /\ pc' = "pf_start"
                          /\ UNCHANGED <<errors, exitCode, ui, stack, fo, obs>>
                ELSE IF includes(toLowerCase(match.url), "/folders/")
                THEN IF name.throws
                     THEN /\ Fatal
                          /\ UNCHANGED <<errors, ui, stack, pf, fo>>
                     ELSE /\ fo' = [id |-> itemId, directory |-> join(top.directory, name.value)]
                          /\ pc' = "fo_start"
                          /\ UNCHANGED <<errors, exitCode, ui, stack, pf, obs>>
                ELSE /\ next
                     /\ UNCHANGED <<errors, exitCode, pf, fo, obs>>
    /\ UNCHANGED <<probe, env, opts, gd, processed, cookies, pu, inflight, response, files, dirs>>

\* processFolder, lines 250-255: after the loop the directory is created
ProcessFolder_Finish ==
    /\ pc = "fo_loop"
    /\ LET top == stack[Len(stack)]
       IN /\ top.idx > Len(top.matches)
          /\ dirs' = mkdir(dirs, top.directory)
          /\ ReturnTo(SubSeq(stack, 1, Len(stack) - 1))
    /\ UNCHANGED <<probe, env, opts, gd, errors, processed, cookies, pu, pf, fo, inflight, response,
                   files, exitCode, obs>>

(***************************************************************************)
(* The run.                                                                *)
(***************************************************************************)
Next ==
    \/ Main_ProcessUrl
    \/ ProcessUrl_Lookup
    \/ ProcessUrl_Dispatch
    \/ Main_Finish
    \/ Request_Redirect
    \/ Request_Return
    \/ Request_Fails
    \/ ProcessFile_Start
    \/ ProcessFile_Response
    \/ ProcessFile_Download
    \/ ProcessFolder_Start
    \/ ProcessFolder_Response
    \/ ProcessFolder_Entry
    \/ ProcessFolder_Finish

Spec == Init /\ [][Next]_vars

(***************************************************************************)
(* The run against a service that sets cookies: one bare identifier on the *)
(* command line, which the lookup resolves to a file or to a folder.       *)
(***************************************************************************)
InitCookies == InitWith("cookies", {<<FolderA>>})

SpecCookies == InitCookies /\ [][Next]_vars

(***************************************************************************)
(* The run against a service whose display names and header filenames try  *)
(* to leave the destination directory: a folder given by its bare          *)
(* identifier, or a file.                                                  *)
(***************************************************************************)
InitHostile == InitWith("hostile", {<<FolderA>>, <<FolderUrl(FolderA)>>, <<FileViewUrl>>})

SpecHostile == InitHostile /\ [][Next]_vars

(***************************************************************************)
(* Direct calls of fileExists: the file system, the expected epoch and the *)
(* overwrite flag are drawn from small sets, and the call stores its       *)
(* result.                                                                 *)
(***************************************************************************)
ProbePath == "a.txt"
ProbeSeconds == {0, 1, 2}
ProbeMillis == {0, 500, 999}
ProbeFileSystems ==
    {NoFiles} \cup {[x \in {ProbePath} |-> [sec |-> t, ms |-> m]] : t \in ProbeSeconds, m \in ProbeMillis}
ProbeExpected == {Null} \cup {Num(t) : t \in ProbeSeconds}

InitFileExists ==
    /\ probe \in [ fn : {"fileExists"}, filePath : {ProbePath}, modified : ProbeExpected,
                   overwrite : BOOLEAN, done : {FALSE}, result : {FALSE} ]
    /\ env = "plain"
    /\ opts = [urls |-> <<>>, directory |-> ".", outputDocument |-> OdUndefined,
               mtimes |-> FALSE, continueOnErrors |-> FALSE]
    /\ gd = newGDriveDL(opts, opts.urls)
    /\ pc = "probe"
    /\ ui = 1
    /\ errors = <<>>
    /\ processed = <<>>
    /\ cookies = <<>>
    /\ stack = <<>>
    /\ pu = NoCall
    /\ pf = NoCall
    /\ fo = NoCall
    /\ inflight = NoRequest
    /\ response = NoResponse
    /\ files \in ProbeFileSystems
    /\ dirs = {"."}
    /\ exitCode = -1
    /\ obs = Obs0

\* await fileExists(filePath, modified, overwrite)
FileExists_Call ==
    /\ pc = "probe"
    /\ probe.fn = "fileExists"
    /\ ~probe.done
    /\ probe' = [probe EXCEPT !.done = TRUE,
                              !.result = fileExists(files, probe.filePath, probe.modified,
                                                    probe.overwrite)]
    /\ UNCHANGED <<env, opts, gd, pc, ui, errors, processed, cookies, stack, pu, pf, fo,
                   inflight, response, files, dirs, exitCode, obs>>

NextFileExists == FileExists_Call

SpecFileExists == InitFileExists /\ [][NextFileExists]_vars

(***************************************************************************)
(* Direct calls of the pure functions: every variable of the run keeps its *)
(* value after construction, and the call is recorded in probe.            *)
(***************************************************************************)
IdleRun ==
    /\ env = "plain"
    /\ opts = [urls |-> <<>>, directory |-> ".", outputDocument |-> OdUndefined,
               mtimes |-> FALSE, continueOnErrors |-> FALSE]
    /\ gd = newGDriveDL(opts, opts.urls)
    /\ pc = "probe"
    /\ ui = 1
    /\ errors = <<>>
    /\ processed = <<>>
    /\ cookies = <<>>
    /\ stack = <<>>
    /\ pu = NoCall
    /\ pf = NoCall
    /\ fo = NoCall
    /\ inflight = NoRequest
    /\ response = NoResponse
    /\ files = NoFiles
    /\ dirs = {"."}
    /\ exitCode = -1
    /\ obs = Obs0

(***************************************************************************)
(* Direct calls of sanitize: the name is a head followed by a tail, and    *)
(* sanitize is called on it and then on its own result.                    *)
(***************************************************************************)
MaxCalls == 2         \* calls of sanitize in a row, each on the last result
LongLen == 300        \* length of the long runs of characters in a name

RECURSIVE Repeat(_, _)
Repeat(c, n) ==
    IF n = 0 THEN "" ELSE IF n = 1 THEN c
    ELSE Repeat(c, n \div 2) \o Repeat(c, n - n \div 2)

SanitizeHeads ==
    { "", "a", "report", "CON", "con", "nul", "COM1", "COM2", "LPT1", "..", " a",
      "a/b", "a:b*c", "a\tb", "%2F", "%09x", "%00", "%2541", "%25", "100%", "%zz", "%e9",
      Repeat("b", LongLen) }
SanitizeTails == { "", ".txt", ". ", "." \o Repeat("x", LongLen) }
SanitizeNames == { h \o t : h \in SanitizeHeads, t \in SanitizeTails }

InitSanitize ==
    /\ probe \in [ fn : {"sanitize"}, input : SanitizeNames, calls : {0},
                    throws : {FALSE}, results : {<<>>} ]
    /\ IdleRun

\* sanitize(x), then sanitize(sanitize(x)), ...; a call that raises ends the
\* sequence
Sanitize_Call ==
    /\ pc = "probe"
    /\ probe.fn = "sanitize"
    /\ probe.calls < MaxCalls
    /\ ~probe.throws
    /\ LET arg == IF probe.calls = 0 THEN probe.input ELSE probe.results[probe.calls]
           r == sanitize(arg)
       IN probe' = [probe EXCEPT !.calls = @ + 1,
                                 !.throws = r.throws,
                                 !.results = IF r.throws THEN @ ELSE Append(@, r.value)]
    /\ UNCHANGED <<env, opts, gd, pc, ui, errors, processed, cookies, stack, pu, pf, fo,
                   inflight, response, files, dirs, exitCode, obs>>

NextSanitize == Sanitize_Call

SpecSanitize == InitSanitize /\ [][NextSanitize]_vars

(***************************************************************************)
(* Direct calls of urlToId: the url is a host part, a path or query that   *)
(* may carry identifiers, and a tail.                                      *)
(***************************************************************************)
UrlHosts ==
    { "", "https://drive.google.com", "HTTPS://DRIVE.GOOGLE.COM",
      "https://drive.usercontent.google.com" }
UrlPaths ==
    { "", "/file/d/" \o FileId, "/FILE/D/" \o FileId, "/file/d/short",
      "/folders/" \o FolderA, "/drive/u/0/folders/" \o FolderA,
      "/folders/" \o FolderA \o "/file/d/" \o FileId,
      "/open?id=" \o FileId, "/uc?id=" \o FileId, "/download?id=" \o FileId,
      "/folders/" \o FolderA \o "?id=" \o FileId,
      "/" \o FileId, "/open?id=short" }
UrlTails == { "", "/view", "&export=download", "?usp=sharing" }
UrlInputs == { h \o p \o t : h \in UrlHosts, p \in UrlPaths, t \in UrlTails }

InitUrlToId ==
    /\ probe \in [ fn : {"urlToId"}, url : UrlInputs, done : {FALSE}, result : {""} ]
    /\ IdleRun

\* urlToId(url)
UrlToId_Call ==
    /\ pc = "probe"
    /\ probe.fn = "urlToId"
    /\ ~probe.done
    /\ probe' = [probe EXCEPT !.done = TRUE, !.result = urlToId(probe.url)]
    /\ UNCHANGED <<env, opts, gd, pc, ui, errors, processed, cookies, stack, pu, pf, fo,
                   inflight, response, files, dirs, exitCode, obs>>

NextUrlToId == UrlToId_Call

SpecUrlToId == InitUrlToId /\ [][NextUrlToId]_vars

(***************************************************************************)
(* Direct calls of parseModifiedTime: the text has one of the three shapes *)
(* of a listing, with numbers that may be malformed or out of range; ok    *)
(* records whether every part of it is a number in range.                  *)
(***************************************************************************)
TimeTexts ==
    { [text |-> h \o ":" \o m \o x,
       ok |-> h \in {"3", "12"} /\ m = "45" /\ x # ""] :
          h \in {"3", "12", "25", "x", ""}, m \in {"45", "99", "xx"},
          x \in {" PM", " AM", ""} }
DateTexts ==
    { [text |-> m \o "/" \o d \o "/" \o y,
       ok |-> m = "12" /\ d = "25" /\ y = "23"] :
          m \in {"12", "13", "0", "ab"}, d \in {"25", "45"}, y \in {"23", "yy"} }
    \cup { [text |-> "12/25", ok |-> FALSE] }
DayTexts ==
    { [text |-> "Dec 25", ok |-> TRUE], [text |-> "Dec 45", ok |-> FALSE],
      [text |-> "Foo 1", ok |-> FALSE], [text |-> "yesterday", ok |-> FALSE] }
ModifiedTexts == TimeTexts \cup DateTexts \cup DayTexts

InitParseModifiedTime ==
    /\ probe \in { [fn |-> "parseModifiedTime", text |-> t.text, ok |-> t.ok,
                     done |-> FALSE, result |-> Null] : t \in ModifiedTexts }
    /\ IdleRun

\* parseModifiedTime(text)
ParseModifiedTime_Call ==
    /\ pc = "probe"
    /\ probe.fn = "parseModifiedTime"
    /\ ~probe.done
    /\ probe' = [probe EXCEPT !.done = TRUE, !.result = parseModifiedTime(probe.text)]
    /\ UNCHANGED <<env, opts, gd, pc, ui, errors, processed, cookies, stack, pu, pf, fo,
                   inflight, response, files, dirs, exitCode, obs>>

NextParseModifiedTime == ParseModifiedTime_Call

SpecParseModifiedTime == InitParseModifiedTime /\ [][NextParseModifiedTime]_vars

(***************************************************************************)
(* gdrive-dl.js, the monolithic variant: the one method whose body differs *)
(* from its counterpart in src/lib.  exists and setModified have the       *)
(* bodies of fileExists and setModifiedTime.                               *)
(***************************************************************************)
\* this.getModified(modified): null without the text or without --mtimes,
\* then the conversion of parseModifiedTime
getModified(mtimes, modified) ==
    IF modified = "" \/ ~mtimes THEN Null ELSE parseModifiedTime(modified)

(***************************************************************************)
(* Properties.                                                             *)
(***************************************************************************)
NoDuplicates(q) == \A i, j \in 1..Len(q) : q[i] = q[j] => i = j
Top == stack[Len(stack)]

\* C1: in one processFile call whose answers all lack a content-disposition
\* header and are neither a login redirect nor a quota page, at most 2
\* re-requests follow the initial download request.  (pf.attempt counts the
\* answers of that kind the call has had; the request outstanding is its
\* re-request number pf.attempt.)
C1_AtMostTwoRerequests ==
    (pc = "fetch" /\ inflight.caller = "file") => pf.attempt <= 2

\* C2: over a whole run the folder listing is requested at most once for each
\* folder identifier, and the visited log holds no identifier twice.
C2_FolderListedOnce == NoDuplicates(obs.listed) /\ NoDuplicates(processed)

\* a folder entry linking to a folder already visited was skipped
C2_Witness ==
    /\ obs.outcome = "visited"
    /\ stack # <<>>
    /\ Len(obs.listed) >= 1

\* C3: an input url of an accepted form that carries a scheme, and whose
\* identifier resolves, is routed by processUrl to the file path or to the
\* folder path, never to the unrecognized-url error.
C3_SchemeFormsRouted ==
    [][ (pc = "pu_dispatch" /\ opts.urls[ui] \in SchemeForms)
            => (pc' \in {"pf_start", "fo_start"} /\ errors' = errors) ]_vars

\* the destination of a processFile call that was given a filename
SuppliedPath ==
    IF isAbsolute(pf.filename) THEN pf.filename ELSE join(pf.directory, pf.filename)

\* the file at the supplied destination is fresh: it is there and overwrite
\* is off, and the listed time, if there is one, is its time floored to seconds
SuppliedPathFresh ==
    /\ pf.filename # ""
    /\ ~gd.overwrite
    /\ SuppliedPath \in DOMAIN files
    /\ (Truthy(parseModifiedTime(pf.modified))
           => files[SuppliedPath].sec = parseModifiedTime(pf.modified).v)

\* C4: when processFile starts with a supplied filename whose destination is
\* fresh, the call ends with "exists": no request is issued, and no file,
\* directory or modification time is written.
C4_FreshFileNoRequest ==
    [][ (pc = "pf_start" /\ SuppliedPathFresh)
            => /\ obs'.outcome = "exists"
               /\ pc' # "fetch"
               /\ pf' = NoCall
               /\ inflight' = inflight
               /\ obs'.answers = obs.answers
               /\ files' = files
               /\ dirs' = dirs
               /\ errors' = errors ]_vars

\* a file of a listing was found fresh on disk (its time has 999 ms) and skipped
C4_Witness ==
    /\ obs.outcome = "exists"
    /\ pc = "fo_loop"
    /\ "a.txt" \in DOMAIN files
    /\ files["a.txt"].ms = 999
    /\ Top.matches[Top.idx - 1].itemName = "a.txt"

\* C5 as stated: when the copy fails there is no file at the destination
\* afterwards, and the failure is propagated (no error is recorded).
C5_NoFileAfterCopyFailure ==
    [][ (pc = "pf_download" /\ obs'.outcome = "copy_failed")
            => /\ pf.filePath \notin DOMAIN files'
               /\ pc' = "done" /\ exitCode' = 1 /\ obs'.fatal
               /\ errors' = errors ]_vars

\* C5, amended: when the copy fails the failure is propagated (no error is
\* recorded), and there is no file at the destination afterwards unless the
\* deletion itself failed; then the disk holds what the copy left.
C5_NoFileUnlessUnlinkFails ==
    [][ (pc = "pf_download" /\ obs'.outcome = "copy_failed")
            => /\ obs'.unlink = "ok" => pf.filePath \notin DOMAIN files'
               /\ obs'.unlink = "failed"
                      => \A x \in DOMAIN files : x \in DOMAIN files'
               /\ \A x \in DOMAIN files' : x = pf.filePath \/ x \in DOMAIN files
               /\ pc' = "done" /\ exitCode' = 1 /\ obs'.fatal
               /\ errors' = errors ]_vars

\* a copy into a fresh destination failed, and the partial file was deleted
C5_Witness ==
    /\ obs.outcome = "copy_failed"
    /\ obs.unlink = "ok"
    /\ pf.filePath # ""
    /\ pf.filePath \notin DOMAIN files
    /\ pc = "done"
    /\ errors = <<>>

\* what C6 says fileExists returns for the file system fs
FreshAsStated(fs, filePath, modified, overwrite) ==
    /\ ~overwrite
    /\ filePath \in DOMAIN fs
    /\ modified = Null \/ floorSeconds(fs[filePath]) = modified.v

\* C6: fileExists is true exactly when overwrite is false, the path can be
\* stat-ed, and no expected epoch was supplied or the modification time
\* floored to seconds equals it; a true result with an expected epoch turns
\* false when that epoch is changed by one second; overwrite=true gives false.
C6_FileExistsAsStated ==
    (probe.fn = "fileExists" /\ probe.done)
        => /\ probe.result
                 <=> FreshAsStated(files, probe.filePath, probe.modified, probe.overwrite)
           /\ (probe.result /\ probe.modified # Null)
                 => \A d \in {0 - 1, 1} :
                        ~fileExists(files, probe.filePath, Num(probe.modified.v + d),
                                    probe.overwrite)
           /\ probe.overwrite => ~probe.result

\* the cookie one Set-Cookie header value sets: the name before the first
\* "=", the value after it, up to the first ";"
CookieOf(line) ==
    LET pair == split(line, ";")[1]
        eq == indexOf(pair, "=")
    IN [name |-> trim(SubSeq(pair, 1, eq - 1)),
        value |-> trim(SubSeq(pair, eq + 1, Len(pair)))]

Stored(line) == \E j \in 1..Len(cookies) : cookies[j] = CookieOf(line)
Carried(line) == includes(inflight.cookie, CookieOf(line).name \o "=" \o CookieOf(line).value)

\* C7: when the request to a hop's Location target is issued, every cookie
\* the hop's Set-Cookie header values set is in the store and in the Cookie
\* header of that request; when request() returns, the cookies of the
\* terminal response are in the store.
C7_HopCookiesStored ==
    /\ pc = "fetch" => \A i \in 1..Len(obs.hop) : Stored(obs.hop[i]) /\ Carried(obs.hop[i])
    /\ pc \in {"pu_lookup", "pf_resp", "fo_resp"}
           => \A i \in 1..Len(response.setCookie) : Stored(response.setCookie[i])

\* C8: with continue-on-error, a folder entry whose identifier cannot be
\* resolved adds exactly one error, and the loop goes on with the next entry
\* of the same listing, which is unchanged.
C8_UnresolvableEntryContinues ==
    [][ (/\ pc = "fo_loop"
         /\ gd.continueOnErrors
         /\ Top.idx <= Len(Top.matches)
         /\ urlToId(Top.matches[Top.idx].url) = "")
            => /\ Len(errors') = Len(errors) + 1
               /\ SubSeq(errors', 1, Len(errors)) = errors
               /\ pc' = "fo_loop"
               /\ exitCode' = exitCode
               /\ Len(stack') = Len(stack)
               /\ stack'[Len(stack)] = [Top EXCEPT !.idx = Top.idx + 1] ]_vars

\* with continue-on-error, the file entry that follows an unresolvable entry
\* of a listing is being processed, the error recorded
C8_Witness ==
    /\ gd.continueOnErrors
    /\ pc = "pf_start"
    /\ stack # <<>>
    /\ Top.idx = 2
    /\ urlToId(Top.matches[1].url) = ""
    /\ pf.id = urlToId(Top.matches[2].url)
    /\ Len(errors) = 1

\* C9: with fail-fast the run stops at the first recorded error: the error
\* list never holds more than one message, the step that records it issues
\* no request and writes nothing, and no step follows it.
C9_FailFastStopsAtFirstError ==
    /\ [](~gd.continueOnErrors => (Len(errors) <= 1 /\ (Len(errors) = 1 => pc = "done")))
    /\ [][ (~gd.continueOnErrors /\ Len(errors') > Len(errors))
               => /\ pc' = "done" /\ exitCode' = 1
                  /\ inflight' = inflight
                  /\ files' = files
                  /\ dirs' = dirs ]_vars
    /\ [][ (~gd.continueOnErrors /\ Len(errors) > 0) => UNCHANGED vars ]_vars

\* fail-fast stopped at an unresolvable entry with an entry still to come
C9_Witness ==
    /\ ~gd.continueOnErrors
    /\ Len(errors) = 1
    /\ pc = "done"
    /\ exitCode = 1
    /\ stack # <<>>
    /\ Top.idx < Len(Top.matches)

C11_LoginRedirectStops ==
    [][ (pc = "pf_resp" /\ includes(response.url, "ServiceLogin"))
            => /\ errors' = Append(errors, pf.id \o ": does not have link sharing enabled")
               /\ pc' \in {"main", "fo_loop", "done"}
               /\ pf' = NoCall
               /\ inflight' = inflight
               /\ files' = files
               /\ dirs' = dirs ]_vars

\* a login redirect that carried a content-disposition header ended the call
\* with the one error and nothing on disk
C11_Witness ==
    /\ obs.outcome = "sharing_with_cd"
    /\ errors = <<FileId \o ": does not have link sharing enabled">>
    /\ pf = NoCall
    /\ files = NoFiles

\* the entry the loop of the innermost processFolder call is at
Current == Top.matches[Top.idx]

\* C12: an entry of a listing whose identifier resolves is handled when the
\* loop reaches it, the loop waiting for it: a file-path url gives one
\* processFile call in the current directory with the sanitized display name
\* and the entry's timestamp text; a folder-path url gives one processFolder
\* call whose directory is the current directory joined with the sanitized
\* display name.
C12_EntryCallsFileOrFolder ==
    [][ (/\ pc = "fo_loop"
         /\ Top.idx <= Len(Top.matches)
         /\ urlToId(Current.url) # "")
            => IF includes(toLowerCase(Current.url), "/file/")
               THEN /\ pc' = "pf_start"
                    /\ pf'.id = urlToId(Current.url)
                    /\ pf'.directory = Top.directory
                    /\ pf'.filename = sanitize(Current.itemName).value
                    /\ pf'.modified = Current.modified
                    /\ stack' = stack
               ELSE IF includes(toLowerCase(Current.url), "/folders/")
               THEN /\ pc' = "fo_start"
                    /\ fo' = [id |-> urlToId(Current.url),
                              directory |-> join(Top.directory,
                                                 sanitize(Current.itemName).value)]
                    /\ stack' = stack
               ELSE TRUE ]_vars

\* the folder is one whose processFolder call has not returned
InTraversal(id) == \E k \in 1..Len(stack) : stack[k].id = id

\* C13 as stated: at the end of the run the directory of every folder whose
\* listing was read without a sharing error exists.
C13_DirectoryAtEndOfRun ==
    pc = "done" => \A i \in 1..Len(obs.opened) :
                       normalize(obs.opened[i].directory) \in dirs

\* C13, amended: the directory of a folder whose listing was read without a
\* sharing error exists from the moment all its entries have been processed
\* and its processFolder call returns, also when the listing is empty; so it
\* exists at the end of every run that was not cut short inside the folder
\* by a fail-fast error or an exception.
C13_DirectoryOnceEntriesProcessed ==
    \A i \in 1..Len(obs.opened) :
        \/ InTraversal(obs.opened[i].id)
        \/ normalize(obs.opened[i].directory) \in dirs

\* a nested folder with an empty listing got its directory
C13_Witness ==
    /\ pc = "done"
    /\ stack = <<>>
    /\ \E i \in 1..Len(obs.opened) : obs.opened[i].directory = "sub"
    /\ obs.entries = 1
    /\ files = NoFiles
    /\ "sub" \in dirs

\* C14: at most one request is outstanding.  Outside request() nothing is
\* outstanding, in particular while a download is being written and between
\* two entries or two input urls; and a request is issued only when none is
\* outstanding or when the outstanding one has just been answered (by a
\* redirect), never while a download is under way.
C14_OneRequestAtATime ==
    /\ [](pc \notin {"fetch", "done"} => inflight = NoRequest)
    /\ [][ (inflight' # inflight /\ inflight' # NoRequest)
              => /\ pc # "pf_download"
                 /\ \/ inflight = NoRequest
                    \/ pc = "fetch" /\ obs'.answers = obs.answers + 1 ]_vars

\* the listing of the second entry is requested after the first entry's
\* download has been written
C14_Witness ==
    /\ pc = "fetch"
    /\ inflight.caller = "folder"
    /\ Len(stack) = 1
    /\ Top.idx = 2
    /\ files \notin InitialFiles

\* C15: sanitize returns a name for every input and never raises.
C15_SanitizeTotal == probe.fn = "sanitize" => ~probe.throws

\* C16: sanitize(sanitize(x)) equals sanitize(x) for every input x.
C16_SanitizeIdempotent ==
    (probe.fn = "sanitize" /\ probe.calls >= 2)
        => /\ ~probe.throws
           /\ probe.results[2] = probe.results[1]

\* C17: a result of sanitize is never longer than 255 characters.
C17_SanitizeAtMost255 ==
    probe.fn = "sanitize"
        => \A i \in 1..Len(probe.results) : Len(probe.results[i]) <= MaxNameLen

\* the device names Windows reserves
DeviceNames ==
    {"CON", "PRN", "AUX", "NUL"}
    \cup {p \o Char(Digits, d) : p \in {"COM", "LPT"}, d \in 2..10}

HasChar(s, cs) == \E i \in 1..Len(s) : Char(s, i) \in cs

\* C18: a result of sanitize is never empty, never a reserved device name in
\* any letter case, and holds no blacklisted and no control character.
C18_SanitizeSafeName ==
    probe.fn = "sanitize"
        => \A i \in 1..Len(probe.results) :
               /\ probe.results[i] # ""
               /\ toUpperCase(probe.results[i]) \notin DeviceNames
               /\ ~HasChar(probe.results[i], blacklist)
               /\ \A k \in 1..Len(probe.results[i]) :
                      charCodeAt(Char(probe.results[i], k)) > 31

\* the captures of the four patterns on a url, "" for a pattern that fails
FilePathId(url) == MatchToken(url, "/file/d/", "/", MinIdLen)
FolderPathId(url) == MatchToken(url, "/folders/", "/", MinIdLen)
IdQueryId(url) == MatchToken(url, "id=", "&", MinIdLen)
CatchAllId(url) == MatchBareToken(url, MinIdLen)

\* C19: urlToId returns the capture of the first pattern that matches, in
\* the order file-path, folder-path, id= query, catch-all token; so when a
\* structured pattern matches, the result is its capture and not the
\* catch-all's, and the result is absent when no pattern matches.
C19_FirstPatternWins ==
    (probe.fn = "urlToId" /\ probe.done)
        => probe.result =
               IF FilePathId(probe.url) # "" THEN FilePathId(probe.url)
               ELSE IF FolderPathId(probe.url) # "" THEN FolderPathId(probe.url)
               ELSE IF IdQueryId(probe.url) # "" THEN IdQueryId(probe.url)
               ELSE CatchAllId(probe.url)

\* the id= query gives the identifier of a url whose first token of ten
\* characters is part of the host name
C19_Witness ==
    /\ probe.fn = "urlToId"
    /\ probe.done
    /\ probe.url = "https://drive.usercontent.google.com/download?id=" \o FileId
                        \o "&export=download"
    /\ probe.result = FileId
    /\ CatchAllId(probe.url) = "usercontent"

\* the Set-Cookie header values recorded by the step: those of a redirect
\* hop, or those of the response request() returns
Recorded ==
    IF pc = "fetch" /\ pc' = "fetch" THEN obs'.hop
    ELSE IF pc = "fetch" /\ pc' \in {"pu_lookup", "pf_resp", "fo_resp"} THEN response'.setCookie
    ELSE <<>>

HasName(store, name) == \E j \in 1..Len(store) : store[j].name = name

\* no name leaves the store, and every request carries the cookies of the
\* one store of the run
GrowsAndShared ==
    /\ \A j \in 1..Len(cookies) : HasName(cookies', cookies[j].name)
    /\ (inflight' # inflight /\ inflight' # NoRequest)
           => inflight'.cookie = getCookieString(cookies')

\* C20: the store is a last-write-wins mapping that only grows.  After a
\* step has recorded header values, every name one of them sets maps to the
\* value of the last of them that sets it, every other name keeps its
\* value, no name is removed, and every request reads this one store.
C20_LastWriteWinsGrowOnly ==
    [][ /\ GrowsAndShared
        /\ \A i \in 1..Len(Recorded) :
               (\A k \in (i + 1)..Len(Recorded) :
                    CookieOf(Recorded[k]).name # CookieOf(Recorded[i]).name)
                   => \E j \in 1..Len(cookies') : cookies'[j] = CookieOf(Recorded[i])
        /\ \A j \in 1..Len(cookies) :
               (\A i \in 1..Len(Recorded) : CookieOf(Recorded[i]).name # cookies[j].name)
                   => \E k \in 1..Len(cookies') : cookies'[k] = cookies[j] ]_vars

\* the destination of the processFile call about to start, "" when no
\* filename was passed to it
StartPath ==
    IF pf.filename = "" THEN ""
    ELSE IF isAbsolute(pf.filename) THEN pf.filename
    ELSE join(pf.directory, pf.filename)

\* C21: without --mtimes the modified-time text of an entry is not used: a
\* file present at the destination ends the call as fresh without a
\* request, and a completed download leaves the file with the time of its
\* writing.
C21_MtimesOffIgnoresListedTime ==
    [][ ~gd.mtimes
           => /\ (/\ pc = "pf_start"
                  /\ pf.filename # ""
                  /\ ~gd.overwrite
                  /\ StartPath \in DOMAIN files)
                     => (pc' # "fetch" /\ obs'.outcome = "exists")
              /\ (pc = "pf_download" /\ pc' # "done")
                     => files'[pf.filePath] = WriteTime ]_vars

\* C22: parseModifiedTime returns null for a text with a malformed or an
\* out-of-range number, and an epoch only for a text that parsed.
C22_AbsentUnlessParsed ==
    (probe.fn = "parseModifiedTime" /\ probe.done /\ ~probe.ok) => probe.result = Null

\* C23: request() follows a bounded number of redirects: the redirects
\* followed by one call stay below the number of answers a run may receive.
C23_RedirectHopsBounded == obs.hops < MaxFetches

\* C24: a response with a content-disposition header, obtained while no
\* destination path is fixed, gives the path from the header's filename, and
\* the call ends as exists or goes on to stream to that path.
C24_PathFromHeader ==
    [][ (/\ pc = "pf_resp"
         /\ ~isLoginRedirect(response.url)
         /\ response.cd # ""
         /\ pf.filePath = "")
            => /\ filenameMatch(response.cd).matched
               /\ \/ obs'.outcome = "exists_named" /\ pf' = NoCall
                  \/ /\ pc' = "pf_download"
                     /\ pf'.filePath # ""
                     /\ pf'.filePath =
                            join(pf.directory,
                                 sanitize(filenameMatch(response.cd).name).value) ]_vars

\* C25: the two variants behave alike.  On every processFile step of the
\* modular variant, the monolithic variant in the same state takes the same
\* decision to request or to report the file as existing, and a completed
\* download leaves the file with the modification time the monolithic
\* variant gives it.
C25_VariantsAgree ==
    [][ /\ (pc = "pf_start" /\ pf.filename # "")
               => (pc' = "fetch"
                      <=> ~fileExists(files, StartPath,
                                      getModified(gd.mtimes, pf.modified), gd.overwrite))
        /\ (pc = "pf_download" /\ pc' # "done")
               => \E utimesOk \in BOOLEAN :
                      files' = setModifiedTime(writeFile(files, pf.filePath, WriteTime),
                                               pf.filePath,
                                               getModified(gd.mtimes, pf.modified),
                                               utimesOk) ]_vars

\* a completed download of a named file, with overwrite off
NamedDownload ==
    /\ pc = "pf_download"
    /\ pc' # "done"
    /\ pf.filename # ""
    /\ ~gd.overwrite

\* C26 as stated: after a completed download of a named file the file is
\* fresh for the same filename and modified-time text, so that processing
\* the entry again reports it as existing.
C26_FreshAfterDownload ==
    [][ NamedDownload => fileExists(files', pf.filePath, pf.modifiedTs, gd.overwrite) ]_vars

\* C26, amended: after a completed download of a named file the file is
\* fresh for the same filename and modified-time text unless a modification
\* time was to be applied and the file kept the time of its writing (utimes
\* failed); and an entry whose file is on disk with the time applied, or
\* whose text gives no time, is reported as existing without a request.
C26_FreshAfterDownloadIfTimeApplied ==
    [][ /\ NamedDownload
               => \/ fileExists(files', pf.filePath, pf.modifiedTs, gd.overwrite)
                  \/ Truthy(pf.modifiedTs) /\ files'[pf.filePath] = WriteTime
        /\ (/\ pc = "pf_start"
            /\ pf.filename # ""
            /\ ~gd.overwrite
            /\ StartPath \in DOMAIN files
            /\ \/ ~Truthy(parseModifiedTime(pf.modified))
               \/ files[StartPath] = [sec |-> parseModifiedTime(pf.modified).v, ms |-> 0])
               => /\ obs'.outcome = "exists"
                  /\ pc' # "fetch"
                  /\ inflight' = inflight ]_vars

\* the entry listed twice was downloaded, got its listed time, and was
\* reported as existing the second time
C26_Witness ==
    /\ obs.outcome = "exists"
    /\ "a.txt" \in DOMAIN files
    /\ files["a.txt"] = [sec |-> ListedTime, ms |-> 0]
    /\ Len(stack) = 1
    /\ Top.idx = 3
    /\ Top.matches[1] = Top.matches[2]

\* the path stays inside the directory it is relative to, and none of its
\* segments is empty, "." or ".."
Inside(p) ==
    LET segs == normalizeSegments(split(p, "/"), <<>>, FALSE)
    IN /\ ~isAbsolute(p)
       /\ segs = <<>> \/ segs[1] # ".."
       /\ p # "." => \A i \in DOMAIN split(p, "/") : split(p, "/")[i] \notin {"", ".", ".."}
       /\ \A i \in 1..Len(p) : Char(p, i) # "\\"

\* C27: every file and every directory written lies inside the destination
\* directory of the run, whatever display names and header filenames the
\* service sends: no segment of a written path is "." or "..", and none
\* holds a path separator.
C27_WritesStayInside ==
    /\ \A p \in DOMAIN files : Inside(p)
    /\ \A d \in dirs : Inside(d)

\* a file whose display name asked for the parent directory was written
\* inside a folder whose display name asked for the parent's parent
C27_Witness == "....up/..evil.txt" \in DOMAIN files

\* C28: overwrite is forced only while an output filename is in effect.  In
\* a run where none is in effect (several urls, the supplied filename
\* dropped with a warning), a file present and fresh at its destination is
\* reported as existing, by its listed name without a request and by its
\* header filename without a download.
C28_FreshSkippedWithoutOutputName ==
    [][ filenameArg(opts, opts.urls) = ""
           => /\ (/\ pc = "pf_start"
                  /\ pf.filename # ""
                  /\ fileExists(files, StartPath, parseModifiedTime(pf.modified), FALSE))
                     => (pc' # "fetch" /\ obs'.outcome = "exists")
              /\ (/\ pc = "pf_resp"
                  /\ ~isLoginRedirect(response.url)
                  /\ pf.filePath = ""
                  /\ filenameMatch(response.cd).matched
                  /\ ~sanitize(filenameMatch(response.cd).name).throws
                  /\ fileExists(files,
                                join(pf.directory,
                                     sanitize(filenameMatch(response.cd).name).value),
                                pf.modifiedTs, FALSE))
                     => obs'.outcome = "exists_named" ]_vars

====
